---- MODULE Spec2Model ----
(***************************************************************************)
(* Code Analysis API: the POST handler of src/app/api/code-analysis/route.ts *)
(* over the process-wide codeAnalyzer singleton of @/lib/codeAnalysis.       *)
(* The handler is modelled from route.ts; the analyzer (the engine), whose   *)
(* source is not part of src/, is modelled from the engine's specification.  *)
(***************************************************************************)
EXTENDS Integers, Sequences, FiniteSets, TLC

\* ------------------------------------------------------------------ bounds

\* Longest files array of an analyze request.
MaxFiles == 2

\* Longest files array of an analyze request in which the analyzer raises.
MaxFaultyFiles == 1

\* Concurrent invocations of POST (two requests can be in flight together).
Handlers == {"h1", "h2"}

\* File paths a request can name.
Paths == {"a.ts", "b.ts"}

\* JavaScript's undefined (a missing property of the request body).
Undefined == "<undefined>"

\* ------------------------------------------------------- file contents

\* The texts a file can carry, named by an identifier:
\*   F    import "./b"; function f(){ if(x){} }
\*   G    import "./a"; function g(){ f(); }
\*   BAD  text the parser cannot parse
ContentIds == {"F", "G", "BAD"}

\* The texts the requests send for each path: a.ts defines f, b.ts defines g,
\* and either may be sent broken.
Texts(p) == IF p = "a.ts" THEN {"F", "BAD"} ELSE {"G", "BAD"}

\* What parsing and extraction find in a text.
Parse(c) ==
    CASE c = "F" ->
           [ok |-> TRUE,
            ents |-> << [name |-> "f", kind |-> "function", complexity |-> 2] >>,
            imports |-> << "b.ts" >>,
            calls |-> << >>]
      [] c = "G" ->
           [ok |-> TRUE,
            ents |-> << [name |-> "g", kind |-> "function", complexity |-> 1] >>,
            imports |-> << "a.ts" >>,
            calls |-> << [caller |-> "g", callee |-> "f"] >>]
      [] OTHER ->
           [ok |-> FALSE, ents |-> << >>, imports |-> << >>, calls |-> << >>]

\* ------------------------------------------------------- sequence helpers

Range(s) == {s[i] : i \in 1..Len(s)}

RECURSIVE Flatten(_)
Flatten(ss) == IF ss = << >> THEN << >> ELSE Head(ss) \o Flatten(Tail(ss))

RECURSIVE SumSeq(_)
SumSeq(s) == IF s = << >> THEN 0 ELSE Head(s) + SumSeq(Tail(s))

\* Index of the first occurrence of x in s (0 when absent).
IndexOf(s, x) ==
    IF x \in Range(s) THEN CHOOSE i \in 1..Len(s) : s[i] = x /\ \A j \in 1..(i-1) : s[j] # x
    ELSE 0

\* ------------------------------------------------------- the engine's state

\* order: paths in insertion order; content: the text held for each path ("-" when
\* the path is not held); analyzed: the paths whose entities are extracted;
\* built/nodes/edges: the dependency graph of the last buildDependencyGraph.
EmptyEngine ==
    [order |-> << >>,
     content |-> [p \in Paths |-> "-"],
     analyzed |-> {},
     built |-> FALSE,
     nodes |-> << >>,
     edges |-> << >>]

\* clear(): drops files, entities, call edges and the dependency graph.
Clear(e) == EmptyEngine

\* One element of addFiles: a path is a unique key, a second file of the same
\* path replaces the text and keeps the path's place.
AddFile(e, f) ==
    [e EXCEPT !.order = IF f.path \in Range(e.order) THEN e.order ELSE Append(e.order, f.path),
              !.content[f.path] = f.content]

\* addFiles(files): ingests the elements in order. An element that is no
\* {path, content} pair either raises (strict, the elements before it stay
\* ingested) or is passed over. Gives [eng, err].
RECURSIVE AddFiles(_, _, _)
AddFiles(e, items, strict) ==
    IF items = << >> THEN [eng |-> e, err |-> ""]
    ELSE IF Head(items).tag # "file"
         THEN IF strict
              THEN [eng |-> e, err |-> "Cannot read properties of null (reading 'path')"]
              ELSE AddFiles(e, Tail(items), strict)
         ELSE AddFiles(AddFile(e, Head(items)), Tail(items), strict)

\* The entities a held, analyzed file contributes to the snapshot.
EntitiesIn(p, ents) ==
    [i \in 1..Len(ents) |->
        [file |-> p, name |-> ents[i].name, kind |-> ents[i].kind,
         complexity |-> ents[i].complexity]]

FileEntities(e, p) ==
    IF p \in e.analyzed /\ e.content[p] \in ContentIds
    THEN EntitiesIn(p, Parse(e.content[p]).ents)
    ELSE << >>

\* All entities of the snapshot, in snapshot-insertion order.
AllEntities(e) == Flatten([i \in 1..Len(e.order) |-> FileEntities(e, e.order[i])])

\* The call edges of the snapshot (callee kept by name).
CallsIn(p, calls) ==
    [i \in 1..Len(calls) |->
        [file |-> p, caller |-> calls[i].caller, callee |-> calls[i].callee]]

FileCalls(e, p) ==
    IF p \in e.analyzed /\ e.content[p] \in ContentIds
    THEN CallsIn(p, Parse(e.content[p]).calls)
    ELSE << >>

AllCalls(e) == Flatten([i \in 1..Len(e.order) |-> FileCalls(e, e.order[i])])

\* The issues recorded for a held file: a text that does not parse is one issue.
FileIssues(e, p) ==
    IF p \in e.analyzed /\ e.content[p] \in ContentIds /\ ~Parse(e.content[p]).ok
    THEN << [file |-> p, severity |-> "error", rule |-> "parse-error"] >>
    ELSE << >>

AllIssues(e) == Flatten([i \in 1..Len(e.order) |-> FileIssues(e, e.order[i])])

\* analyzeFile(path): extracts the file's entities and issues into the snapshot
\* and returns them; a text that does not parse yields no entity and one issue.
\* A path the snapshot does not hold yields an empty result.
AnalyzeResult(e2, p) ==
    [eng |-> e2, ret |-> [entities |-> FileEntities(e2, p), issues |-> FileIssues(e2, p)]]

AnalyzeFile(e, p) ==
    AnalyzeResult(IF p \in Range(e.order) THEN [e EXCEPT !.analyzed = @ \cup {p}] ELSE e, p)

\* The dependency edges a held file's imports give.
EdgesOf(p, imports) ==
    [i \in 1..Len(imports) |-> [from |-> p, to |-> imports[i], type |-> "import"]]

FileEdges(e, p) ==
    IF e.content[p] \in ContentIds
    THEN EdgesOf(p, Parse(e.content[p]).imports)
    ELSE << >>

\* buildDependencyGraph(): nodes are the held files, edges their imports.
BuildDependencyGraph(e) ==
    [e EXCEPT !.built = TRUE,
              !.nodes = e.order,
              !.edges = Flatten([i \in 1..Len(e.order) |-> FileEdges(e, e.order[i])])]

\* ------------------------------------------------------- cycle detection

\* The files a file imports that the graph holds (external targets are recorded
\* as edges and left out of cycle detection), in edge order.
Targets(own) == [i \in 1..Len(own) |-> own[i].to]

Successors(e, n) ==
    Targets(SelectSeq(e.edges, LAMBDA d : d.from = n /\ d.to \in Range(e.nodes)))

\* c and d are the same cycle started at different files.
IsRotation(c, d) ==
    /\ Len(c) = Len(d)
    /\ \E k \in 0..(Len(c) - 1) :
         \A i \in 1..Len(c) : c[i] = d[((i - 1 + k) % Len(c)) + 1]

\* Depth-first traversal with a current-path stack: a file met again on the
\* stack closes a cycle (the stack from its first occurrence on), which is
\* recorded unless a rotation of it is; the traversal then continues.
RECURSIVE Dfs(_, _, _, _)
RECURSIVE DfsEach(_, _, _, _, _)
Record(cyc, st) ==
    IF \E c \in Range(st.cycles) : IsRotation(c, cyc)
    THEN st
    ELSE [st EXCEPT !.cycles = Append(@, cyc)]

\* Variant of Dfs: a file met again on the stack records the whole stack.
DfsRecordsWholeStack(e, n, stack, st) ==
    IF n \in Range(stack)
    THEN Record(stack, st)
    ELSE IF n \in st.visited
         THEN st
         ELSE DfsEach(e, Successors(e, n), 1, Append(stack, n),
                      [st EXCEPT !.visited = @ \cup {n}])

Dfs(e, n, stack, st) ==
    IF n \in Range(stack)
    THEN Record(SubSeq(stack, IndexOf(stack, n), Len(stack)), st)
    ELSE IF n \in st.visited
         THEN st
         ELSE DfsEach(e, Successors(e, n), 1, Append(stack, n),
                      [st EXCEPT !.visited = @ \cup {n}])
DfsEach(e, succs, i, stack, st) ==
    IF i > Len(succs) THEN st
    ELSE DfsEach(e, succs, i + 1, stack, Dfs(e, succs[i], stack, st))

RECURSIVE DfsFrom(_, _, _)
DfsFrom(e, i, st) ==
    IF i > Len(e.nodes) THEN st
    ELSE DfsFrom(e, i + 1,
                 IF e.nodes[i] \in st.visited THEN st ELSE Dfs(e, e.nodes[i], << >>, st))

\* findCircularDependencies(): the cycles of the built graph, each a sequence of paths.
FindCircularDependencies(e) == DfsFrom(e, 1, [visited |-> {}, cycles |-> << >>]).cycles

\* ------------------------------------------------------- the engine's queries

\* getCodebaseSummary(): aggregate counts over the snapshot.
Summary(e, ents) ==
    [totalFiles |-> Len(e.order),
     totalEntities |-> Len(ents),
     totalComplexity |-> SumSeq([i \in 1..Len(ents) |-> ents[i].complexity]),
     totalIssues |-> Len(AllIssues(e)),
     totalEdges |-> Len(e.edges),
     totalCycles |-> Len(FindCircularDependencies(e))]

GetCodebaseSummary(e) == Summary(e, AllEntities(e))

\* Lower-casing of the names and patterns of the model.
Lower(s) ==
    CASE s = "F" -> "f"
      [] s = "G" -> "g"
      [] OTHER -> s

\* Case-insensitive substring match of pattern in name. Entity names are one
\* letter long: the empty pattern matches every name, a one-letter pattern the
\* name it equals, a longer pattern none.
Contains(name, pattern) == pattern = "" \/ Lower(pattern) = Lower(name)

\* searchEntities(pattern, kind?): matches in snapshot order.
SearchEntities(e, pattern, kind) ==
    SelectSeq(AllEntities(e),
              LAMBDA x : Contains(x.name, pattern) /\ (kind = Undefined \/ x.kind = kind))

\* getEntity(name): the first entity of that name in snapshot order, as a
\* sequence of one element; the empty sequence is null.
FirstOrNull(hits) == IF hits = << >> THEN << >> ELSE << Head(hits) >>

GetEntity(e, name) == FirstOrNull(SelectSeq(AllEntities(e), LAMBDA x : x.name = name))

\* findCallers(name, filePath?): call edges whose callee is name, narrowed to
\* callers located in filePath when it is given.
FindCallers(e, name, filePath) ==
    SelectSeq(AllCalls(e),
              LAMBDA c : c.callee = name /\ (filePath = Undefined \/ c.file = filePath))

\* findCallees(name): call edges whose caller is name.
FindCallees(e, name) == SelectSeq(AllCalls(e), LAMBDA c : c.caller = name)

\* getDependents(filePath): the files with an edge to filePath.
Sources(hits) == [i \in 1..Len(hits) |-> hits[i].from]

GetDependents(e, filePath) == Sources(SelectSeq(e.edges, LAMBDA d : d.to = filePath))

\* getDependencies(filePath): the targets of the edges from filePath.
GetDependencies(e, filePath) == Targets(SelectSeq(e.edges, LAMBDA d : d.from = filePath))

\* ------------------------------------------------------- request bodies

\* An element of a files array: a {path, content} pair, or null.
NullElem == [tag |-> "null", path |-> Undefined, content |-> Undefined]
FileElems ==
    UNION {{[tag |-> "file", path |-> p, content |-> c] : c \in Texts(p)} : p \in Paths}
        \cup {NullElem}

\* The files arrays of at most MaxFiles elements (a path may occur twice).
FileLists == UNION {[1..n -> FileElems] : n \in 0..MaxFiles}

\* The files property: missing, a value that is no array, or an array.
FilesUndefined == [tag |-> "undefined", items |-> << >>]
FilesNotArray == [tag |-> "string", items |-> << >>]
FilesArray(items) == [tag |-> "array", items |-> items]

\* The parsed request body: the properties POST destructures. kind is "object"
\* for a JSON object, "null" for the JSON value null, "badjson" for a body that
\* is no JSON.
MkBody(action, files, functionName, pattern, type, filePath) ==
    [kind |-> "object", action |-> action, files |-> files,
     functionName |-> functionName, pattern |-> pattern, type |-> type,
     filePath |-> filePath]

NoBody == MkBody(Undefined, FilesUndefined, Undefined, Undefined, Undefined, Undefined)
BadJsonBody == [NoBody EXCEPT !.kind = "badjson"]
NullBody == [NoBody EXCEPT !.kind = "null"]

QueryActions ==
    {"findCallers", "findCallees", "searchEntities", "getEntity", "getDependents",
     "getDependencies", "findCircularDependencies", "getSummary"}

AnalyzeBodies ==
    {MkBody("analyze", f, Undefined, Undefined, Undefined, Undefined) :
        f \in {FilesUndefined, FilesNotArray} \cup {FilesArray(l) : l \in FileLists}}

QueryBodies ==
    {MkBody("findCallers", FilesUndefined, n, Undefined, Undefined, fp) :
        n \in {Undefined, "f"}, fp \in {Undefined, "b.ts"}}
    \cup {MkBody("findCallees", FilesUndefined, n, Undefined, Undefined, Undefined) :
        n \in {Undefined, "g"}}
    \cup {MkBody("getEntity", FilesUndefined, n, Undefined, Undefined, Undefined) :
        n \in {Undefined, "", "f", "zz"}}
    \cup {MkBody("searchEntities", FilesUndefined, Undefined, pt, Undefined, Undefined) :
        pt \in {Undefined, "", "F", "zz"}}
    \cup {MkBody("searchEntities", FilesUndefined, Undefined, "G", "class", Undefined)}
    \cup {MkBody(a, FilesUndefined, Undefined, Undefined, Undefined, fp) :
        a \in {"getDependents", "getDependencies"}, fp \in {Undefined, "a.ts", "b.ts"}}
    \cup {MkBody(a, FilesUndefined, Undefined, Undefined, Undefined, Undefined) :
        a \in {"findCircularDependencies", "getSummary"}}

OtherBodies ==
    {MkBody("bogus", FilesUndefined, Undefined, Undefined, Undefined, Undefined),
     BadJsonBody, NullBody}

Bodies == AnalyzeBodies \cup QueryBodies \cup OtherBodies

\* ------------------------------------------------------- the POST handler

\* JavaScript's !v for the string-or-undefined properties of the body.
Falsy(v) == v \in {Undefined, ""}

\* What request.json() and the destructuring of its value raise: a body that
\* is no JSON is a SyntaxError, null cannot be destructured.
EntryError(body) ==
    CASE body.kind = "badjson" -> "Unexpected token in JSON"
      [] body.kind = "null" -> "Cannot destructure property 'action' of null"
      [] OTHER -> ""

\* The 400 answers of the switch: the message of the guard that rejects the
\* body, "" when the body passes.
ValidationError(body) ==
    CASE body.action = "analyze" ->
           IF body.files.tag # "array" THEN "Files array is required" ELSE ""
      [] body.action \in {"findCallers", "findCallees", "getEntity"} ->
           IF Falsy(body.functionName) THEN "functionName is required" ELSE ""
      [] body.action = "searchEntities" ->
           IF Falsy(body.pattern) THEN "pattern is required" ELSE ""
      [] body.action \in {"getDependents", "getDependencies"} ->
           IF Falsy(body.filePath) THEN "filePath is required" ELSE ""
      [] body.action \in {"findCircularDependencies", "getSummary"} -> ""
      [] OTHER -> "Unknown action"

Call(op, i) == [op |-> op, i |-> i]

\* Variant of AnalyzeProgram: addFiles and clear swapped.
AnalyzeProgramAddsBeforeClear(items) ==
    << Call("addFiles", 0), Call("clear", 0) >>
        \o [k \in 1..Len(items) |-> Call("analyzeFile", k)]
        \o << Call("buildDependencyGraph", 0), Call("findCircularDependencies", 0),
              Call("getCodebaseSummary", 0) >>

\* Variant of AnalyzeProgram: clear() left out.
AnalyzeProgramNoClear(items) ==
    << Call("addFiles", 0) >>
        \o [k \in 1..Len(items) |-> Call("analyzeFile", k)]
        \o << Call("buildDependencyGraph", 0), Call("findCircularDependencies", 0),
              Call("getCodebaseSummary", 0) >>

\* Variant of AnalyzeProgram: the loop ends at the first file whose text does
\* not parse.
AnalyzeProgramStopsAtFailure(items) ==
    << Call("clear", 0), Call("addFiles", 0) >>
        \o SelectSeq([k \in 1..Len(items) |-> Call("analyzeFile", k)],
                     LAMBDA c : \A j \in 1..(c.i - 1) :
                                  items[j].tag = "file" => Parse(items[j].content).ok)
        \o << Call("buildDependencyGraph", 0), Call("findCircularDependencies", 0),
              Call("getCodebaseSummary", 0) >>

\* Variant of AnalyzeProgram: a path that occurred before is not analyzed again.
AnalyzeProgramOncePerPath(items) ==
    << Call("clear", 0), Call("addFiles", 0) >>
        \o SelectSeq([k \in 1..Len(items) |-> Call("analyzeFile", k)],
                     LAMBDA c : \A j \in 1..(c.i - 1) : items[j].path # items[c.i].path)
        \o << Call("buildDependencyGraph", 0), Call("findCircularDependencies", 0),
              Call("getCodebaseSummary", 0) >>

\* Variant of AnalyzeProgram: the cycles are asked for before the graph is built.
AnalyzeProgramCyclesBeforeBuild(items) ==
    << Call("clear", 0), Call("addFiles", 0) >>
        \o [k \in 1..Len(items) |-> Call("analyzeFile", k)]
        \o << Call("findCircularDependencies", 0), Call("buildDependencyGraph", 0),
              Call("getCodebaseSummary", 0) >>

\* The analyzer calls of case 'analyze', in program order.
AnalyzeProgram(items) ==
    << Call("clear", 0), Call("addFiles", 0) >>
        \o [k \in 1..Len(items) |-> Call("analyzeFile", k)]
        \o << Call("buildDependencyGraph", 0), Call("findCircularDependencies", 0),
              Call("getCodebaseSummary", 0) >>

\* Variant of QueryProgram: 'findCircularDependencies' builds the graph first.
QueryProgramRebuilds(action) ==
    CASE action = "findCallers" -> << Call("findCallers", 0) >>
      [] action = "findCallees" -> << Call("findCallees", 0) >>
      [] action = "searchEntities" -> << Call("searchEntities", 0) >>
      [] action = "getEntity" -> << Call("getEntity", 0) >>
      [] action = "getDependents" -> << Call("getDependents", 0) >>
      [] action = "getDependencies" -> << Call("getDependencies", 0) >>
      [] action = "findCircularDependencies" ->
           << Call("buildDependencyGraph", 0), Call("findCircularDependencies", 0) >>
      [] action = "getSummary" -> << Call("getCodebaseSummary", 0) >>
      [] OTHER -> << >>

\* The analyzer call of each query case.
QueryProgram(action) ==
    CASE action = "findCallers" -> << Call("findCallers", 0) >>
      [] action = "findCallees" -> << Call("findCallees", 0) >>
      [] action = "searchEntities" -> << Call("searchEntities", 0) >>
      [] action = "getEntity" -> << Call("getEntity", 0) >>
      [] action = "getDependents" -> << Call("getDependents", 0) >>
      [] action = "getDependencies" -> << Call("getDependencies", 0) >>
      [] action = "findCircularDependencies" -> << Call("findCircularDependencies", 0) >>
      [] action = "getSummary" -> << Call("getCodebaseSummary", 0) >>
      [] OTHER -> << >>

\* The analyzer calls the handler makes for a body: none when request.json()
\* or the destructuring raises or a guard rejects the body.
Program(body) ==
    IF EntryError(body) # "" \/ ValidationError(body) # "" THEN << >>
    ELSE IF body.action = "analyze" THEN AnalyzeProgram(body.files.items)
    ELSE QueryProgram(body.action)

\* Variant of Suspends: clear() is awaited.
SuspendsAfterClear(op) == op = "clear"

\* Whether the handler suspends after an analyzer call: no call is awaited, so
\* the handler runs from the end of request.json() to its return in one turn
\* of the event loop.
Suspends(op) == FALSE

\* The handler's locals: results, graph, circularDeps, summary, the value a
\* query returned, the analyzer calls made so far, and the error raised.
NoLocals ==
    [results |-> << >>, nodes |-> << >>, edges |-> << >>, circ |-> << >>,
     summary |-> << >>, ret |-> << >>, log |-> << >>, err |-> ""]

\* The handler's locals after a call that returned: the call is logged.
Logged(loc, op) == [loc EXCEPT !.log = Append(@, op)]

\* A query call: the value it returned is kept.
Returned(eng, loc, op, value) == [eng |-> eng, loc |-> [Logged(loc, op) EXCEPT !.ret = value]]

AfterAddFiles(r, loc) == [eng |-> r.eng, loc |-> [Logged(loc, "addFiles") EXCEPT !.err = r.err]]

\* results.push({filePath: file.path, ...result})
AfterAnalyzeFile(r, loc, path) ==
    [eng |-> r.eng,
     loc |-> [Logged(loc, "analyzeFile") EXCEPT !.results =
                Append(@, [filePath |-> path, entities |-> r.ret.entities,
                           issues |-> r.ret.issues])]]

AfterBuild(g, loc) ==
    [eng |-> g, loc |-> [Logged(loc, "buildDependencyGraph") EXCEPT !.nodes = g.nodes,
                                                                    !.edges = g.edges]]

AfterCycles(eng, loc, cycles) ==
    [eng |-> eng,
     loc |-> [Logged(loc, "findCircularDependencies") EXCEPT !.circ = cycles, !.ret = cycles]]

AfterSummary(eng, loc, summary) ==
    [eng |-> eng,
     loc |-> [Logged(loc, "getCodebaseSummary") EXCEPT !.summary = << summary >>,
                                                       !.ret = << summary >>]]

\* What the analyzer throws when it raises: an Error with a message, or a
\* value that is no Error.
EngineErrorMessage == "Internal invariant violated"
ThrownValue == "<thrown value>"
Thrown(kind) == IF kind = "Error" THEN EngineErrorMessage ELSE ThrownValue

\* No analyzer call raises.
NoFault == [at |-> 0, kind |-> ""]

\* One analyzer call of the handler, on the analyzer state eng and the
\* handler's locals loc. strict: how addFiles takes a null element. raises: what
\* the analyzer raises in this call (an internal invariant violation), "" when
\* it returns. In the loop of 'analyze', file.path of a null element raises
\* before the call is made.
ExecCall(eng, loc, call, body, strict, raises) ==
    IF raises # "" /\ ~(call.op = "analyzeFile" /\ body.files.items[call.i].tag # "file")
    THEN [eng |-> eng, loc |-> [Logged(loc, call.op) EXCEPT !.err = Thrown(raises)]]
    ELSE CASE call.op = "clear" ->
                [eng |-> Clear(eng), loc |-> Logged(loc, "clear")]
           [] call.op = "addFiles" ->
                AfterAddFiles(AddFiles(eng, body.files.items, strict), loc)
           [] call.op = "analyzeFile" ->
                IF body.files.items[call.i].tag # "file"
                THEN [eng |-> eng,
                      loc |-> [loc EXCEPT !.err = "Cannot read properties of null (reading 'path')"]]
                ELSE AfterAnalyzeFile(AnalyzeFile(eng, body.files.items[call.i].path), loc,
                                      body.files.items[call.i].path)
           [] call.op = "buildDependencyGraph" ->
                AfterBuild(BuildDependencyGraph(eng), loc)
           [] call.op = "findCircularDependencies" ->
                AfterCycles(eng, loc, FindCircularDependencies(eng))
           [] call.op = "getCodebaseSummary" ->
                AfterSummary(eng, loc, GetCodebaseSummary(eng))
           [] call.op = "findCallers" ->
                Returned(eng, loc, call.op, FindCallers(eng, body.functionName, body.filePath))
           [] call.op = "findCallees" ->
                Returned(eng, loc, call.op, FindCallees(eng, body.functionName))
           [] call.op = "searchEntities" ->
                Returned(eng, loc, call.op, SearchEntities(eng, body.pattern, body.type))
           [] call.op = "getEntity" ->
                Returned(eng, loc, call.op, GetEntity(eng, body.functionName))
           [] call.op = "getDependents" ->
                Returned(eng, loc, call.op, GetDependents(eng, body.filePath))
           [] call.op = "getDependencies" ->
                Returned(eng, loc, call.op, GetDependencies(eng, body.filePath))

\* The handler after the call x.idx returned y (the analyzer state and the
\* locals): it goes on to the next call, or suspends there.
AfterCall(x, y, prog) ==
    [eng |-> y.eng, loc |-> y.loc, idx |-> x.idx + 1, done |-> FALSE,
     susp |-> y.loc.err = "" /\ Suspends(prog[x.idx].op)]

\* One step of the handler at its call x.idx: it has returned when no call is
\* left or an error is raised (the catch takes over), and stays as it is once
\* returned or suspended. fault: the index of the call in which the analyzer
\* raises (0 for none) and what it raises.
Advance(x, prog, body, strict, fault) ==
    IF x.done \/ x.susp THEN x
    ELSE IF x.idx > Len(prog) \/ x.loc.err # "" THEN [x EXCEPT !.done = TRUE]
    ELSE AfterCall(x, ExecCall(x.eng, x.loc, prog[x.idx], body, strict,
                               IF fault.at = x.idx THEN fault.kind ELSE ""), prog)

\* The handler from its i-th analyzer call on, until it returns or suspends:
\* the analyzer state and the locals it leaves, the index of its next call,
\* and whether it returned.
Run(eng, loc, prog, i, body, strict, fault) ==
    LET at[k \in 0..(Len(prog) + 1)] ==
            IF k = 0
            THEN [eng |-> eng, loc |-> loc, idx |-> i, done |-> FALSE, susp |-> FALSE]
            ELSE Advance(at[k - 1], prog, body, strict, fault)
    IN  at[Len(prog) + 1]

\* The HTTP statuses of the handler's answers.
StatusOk == 200
StatusBadRequest == 400
StatusServerError == 500

NoResponse ==
    [status |-> 0, error |-> "", results |-> << >>, nodes |-> << >>, edges |-> << >>,
     circularDependencies |-> << >>, summary |-> << >>, ret |-> << >>]

\* Variant of ResultStatus: a null entity is answered 404.
ResultStatusNotFound(body, loc) ==
    IF body.action = "getEntity" /\ loc.ret = << >> THEN 404 ELSE 200

\* The status of a case's answer: NextResponse.json without a status, whatever
\* the analyzer returned (a null entity and an empty list included).
ResultStatus(body, loc) == StatusOk

\* Variant of ErrorStatus: the catch answers with the default status.
ErrorStatusDefault(err) == StatusOk

\* The status of the catch's answer.
ErrorStatus(err) == StatusServerError

\* error instanceof Error ? error.message : 'Unknown error'
ErrorMessage(err) == IF err = ThrownValue THEN "Unknown error" ELSE err

\* The response of a handler whose locals are loc when it returns: the catch's
\* 500 with the error's message, a guard's 400, or the case's JSON.
Response(body, loc) ==
    IF EntryError(body) # ""
    THEN [NoResponse EXCEPT !.status = ErrorStatus(EntryError(body)),
                            !.error = ErrorMessage(EntryError(body))]
    ELSE IF ValidationError(body) # ""
    THEN [NoResponse EXCEPT !.status = StatusBadRequest, !.error = ValidationError(body)]
    ELSE IF loc.err # ""
    THEN [NoResponse EXCEPT !.status = ErrorStatus(loc.err), !.error = ErrorMessage(loc.err)]
    ELSE IF body.action = "analyze"
    THEN [NoResponse EXCEPT !.status = ResultStatus(body, loc), !.results = loc.results,
                            !.nodes = loc.nodes, !.edges = loc.edges,
                            !.circularDependencies = loc.circ, !.summary = loc.summary]
    ELSE [NoResponse EXCEPT !.status = ResultStatus(body, loc), !.ret = loc.ret]

\* ------------------------------------------------------- state and actions

\* engine: the codeAnalyzer singleton. h: each invocation of POST (pc "idle":
\* not running, "json": suspended in await request.json(), "await": suspended
\* after an analyzer call). last: the request answered last, with its body,
\* its response and the analyzer calls it made; and, for an analyze that
\* returned its result, prior: how the snapshot before it relates to the one it
\* left; others: the requests in flight when it returned; raced: the request
\* answered just before was an analyze that returned its result while this one
\* was in flight, and left other files than this one. thrown: what the analyzer
\* raised in a call of the request ("" when no call raised). reported: the
\* cycles and the summary of the response of the last analyze that returned its
\* result, empty once another analyze request is handled. between: a query was
\* answered with a result after that analyze and before the last request.
VARIABLES engine, h, last

vars == << engine, h, last >>

IdleHandler ==
    [pc |-> "idle", body |-> NoBody, loc |-> NoLocals, idx |-> 1, strict |-> TRUE,
     fault |-> NoFault]

NoLast ==
    [body |-> NoBody, res |-> NoResponse, log |-> << >>, prior |-> "-", others |-> {},
     raced |-> FALSE, thrown |-> "", reported |-> << >>, between |-> FALSE]

\* How the snapshot before an analyze that returned its result relates to the
\* one it left: there was none, it was the same, it held a path the new one
\* does not, or it differed otherwise.
Prior(before, after) ==
    IF before = EmptyEngine THEN "empty"
    ELSE IF before = after THEN "same"
    ELSE IF Range(before.order) \ Range(after.order) # {} THEN "dropped"
    ELSE "other"

Init ==
    /\ engine = EmptyEngine
    /\ h = [r \in Handlers |-> IdleHandler]
    /\ last = NoLast

\* A request arrives: POST runs to await request.json() and suspends.
Receive(r) ==
    /\ h[r].pc = "idle"
    /\ h' = [h EXCEPT ![r].pc = "json"]
    /\ UNCHANGED << engine, last >>

\* The faults of a request: none, or the analyzer raises in one of the calls.
Faults(body) ==
    IF Len(body.files.items) > MaxFaultyFiles THEN {NoFault}
    ELSE {NoFault} \cup {[at |-> k, kind |-> t] :
                            k \in 1..Len(Program(body)), t \in {"Error", "value"}}

\* How addFiles may take the body's files: either way when an element is null.
StrictChoices(body) ==
    IF \E i \in 1..Len(body.files.items) : body.files.items[i].tag # "file"
    THEN BOOLEAN ELSE {TRUE}

\* The suspended handler r continues: with the parsed body after request.json(),
\* through the switch to its return (or to its next suspension). faulty: the
\* analyzer may raise in one of its calls.
Handle(r, faulty) ==
    /\ h[r].pc \in {"json", "await"}
    /\ \E body \in (IF h[r].pc = "json" THEN Bodies ELSE {h[r].body}) :
       \E strict \in (IF h[r].pc = "json" THEN StrictChoices(body) ELSE {h[r].strict}) :
       \E fault \in (IF h[r].pc # "json" THEN {h[r].fault}
                     ELSE IF faulty THEN Faults(body) ELSE {NoFault}) :
       \E out \in {Run(engine, IF h[r].pc = "json" THEN NoLocals ELSE h[r].loc,
                        Program(body), h[r].idx, body, strict, fault)} :
       \E res \in {Response(body, out.loc)} :
       \E analyzed \in {out.done /\ body.action = "analyze" /\ res.status = StatusOk} :
       \E reported \in {IF analyzed
                        THEN << [cycles |-> res.circularDependencies,
                                 summary |-> res.summary] >>
                        ELSE IF body.action = "analyze" THEN << >> ELSE last.reported} :
             /\ engine' = out.eng
             /\ last' = IF out.done
                        THEN [body |-> body, res |-> res, log |-> out.loc.log,
                              prior |-> IF analyzed THEN Prior(engine, out.eng) ELSE "-",
                              others |-> IF analyzed
                                         THEN {q \in Handlers \ {r} : h[q].pc # "idle"}
                                         ELSE {},
                              raced |-> analyzed /\ r \in last.others
                                          /\ engine.content # out.eng.content,
                              thrown |-> IF out.loc.err # "" /\ fault.at = Len(out.loc.log)
                                         THEN fault.kind ELSE "",
                              reported |-> reported,
                              between |-> /\ reported # << >>
                                          /\ body.action # "analyze"
                                          /\ \/ last.between
                                             \/ /\ last.body.action \in QueryActions
                                                /\ last.res.status = StatusOk]
                        ELSE last
             /\ h' = [h EXCEPT ![r] =
                        IF out.done THEN IdleHandler
                        ELSE [pc |-> "await", body |-> body, loc |-> out.loc,
                              idx |-> out.idx, strict |-> strict, fault |-> fault]]

\* The analyzer keeps its contract: no call raises an internal violation.
Resume(r) == Handle(r, FALSE)

\* The analyzer may raise an internal invariant violation in any call.
ResumeFaulty(r) == Handle(r, TRUE)

Next == \E r \in Handlers : Receive(r) \/ Resume(r)

Spec == Init /\ [][Next]_vars

NextFaulty == \E r \in Handlers : Receive(r) \/ ResumeFaulty(r)

SpecFaulty == Init /\ [][NextFaulty]_vars

\* ------------------------------------------------------- properties

\* A request has been answered.
Answered == last.res.status # 0

\* The last request answered is an analyze that returned its result.
AnalyzeReturned == last.body.action = "analyze" /\ last.res.status = StatusOk

\* The paths of a files array without null elements.
PathsOf(items) == {items[i].path : i \in 1..Len(items)}

\* The text the last element of path p carries.
LastContent(items, p) ==
    items[CHOOSE i \in 1..Len(items) :
            items[i].path = p /\ \A j \in (i + 1)..Len(items) : items[j].path # p].content

\* The analyzer calls of one analyze of n files, in order.
ExpectedLog(n) ==
    << "clear", "addFiles" >> \o [k \in 1..n |-> "analyzeFile"]
        \o << "buildDependencyGraph", "findCircularDependencies", "getCodebaseSummary" >>

\* The snapshot one analyze of items builds from nothing: every file ingested
\* and analyzed, the graph built over them.
ExpectedSnapshot(items) ==
    BuildDependencyGraph([AddFiles(EmptyEngine, items, TRUE).eng
                            EXCEPT !.analyzed = PathsOf(items)])

\* Every held file is analyzed and the graph is built from the files held.
Complete(e) ==
    /\ e.built
    /\ e.analyzed = Range(e.order)
    /\ e.nodes = e.order
    /\ e.edges = BuildDependencyGraph(e).edges

\* A body whose required argument is missing or malformed: analyze without an
\* array of {path, content} pairs, a name, pattern or filePath query without
\* it, an unknown action.
InvalidRequest(body) ==
    /\ body.kind = "object"
    /\ CASE body.action = "analyze" ->
              \/ body.files.tag # "array"
              \/ \E i \in 1..Len(body.files.items) : body.files.items[i].tag # "file"
         [] body.action \in {"findCallers", "findCallees", "getEntity"} ->
              body.functionName = Undefined
         [] body.action = "searchEntities" -> body.pattern = Undefined
         [] body.action \in {"getDependents", "getDependencies"} ->
              body.filePath = Undefined
         [] body.action \in {"findCircularDependencies", "getSummary"} -> FALSE
         [] OTHER -> TRUE

\* C1: after an analyze returns its result, the analyzer calls it made are
\* clear, addFiles, analyzeFile for every file, buildDependencyGraph,
\* findCircularDependencies, getCodebaseSummary, in that order, and the
\* snapshot holds exactly the request's files (each path with the text of its
\* last element), all analyzed, with the graph over them.
C1_AnalyzeReplacesSnapshot ==
    AnalyzeReturned =>
        /\ last.log = ExpectedLog(Len(last.body.files.items))
        /\ Range(engine.order) = PathsOf(last.body.files.items)
        /\ \A p \in Paths :
             engine.content[p] =
                IF p \in PathsOf(last.body.files.items)
                THEN LastContent(last.body.files.items, p) ELSE "-"
        /\ engine.analyzed = PathsOf(last.body.files.items)
        /\ engine.built
        /\ Range(engine.nodes) = PathsOf(last.body.files.items)

\* An analyze returned its result over a snapshot that held a path the request
\* does not name.
C1_Witness ==
    /\ AnalyzeReturned
    /\ last.prior = "dropped"
    /\ Len(last.body.files.items) >= 1

\* C2 (as claimed): a request whose required argument is missing or malformed
\* is answered 400 and no analyzer call has run.
C2_InvalidInputRejectedUnchanged ==
    (Answered /\ InvalidRequest(last.body)) =>
        /\ last.res.status = StatusBadRequest
        /\ last.log = << >>

\* C3 (as claimed): the snapshot a query observes is the empty initial one or
\* the complete snapshot of a finished analyze.
C3_QueriesSeeCompleteSnapshot ==
    last.body.action \in QueryActions => (engine = EmptyEngine \/ Complete(engine))

\* C4: when the analyze of another request returned while this analyze was in
\* flight and left other files, the snapshot after this one returns is the
\* snapshot of this request's files alone.
C4_LastAnalyzeWins ==
    last.raced => engine = ExpectedSnapshot(last.body.files.items)

\* Two analyzes of different files were in flight together and both returned.
C4_Witness ==
    /\ last.raced
    /\ AnalyzeReturned
    /\ Len(last.body.files.items) >= 1

\* C5: a step in which a handler answers a query, rejected or not, leaves the
\* analyzer's snapshot as it was.
C5_QueriesLeaveSnapshot ==
    [][((\E r \in Handlers : h[r].pc = "json" /\ h'[r].pc = "idle")
          /\ last'.body.action \in QueryActions)
        => engine' = engine]_vars

\* A query was answered with a result over a snapshot that holds files.
C5_Witness ==
    /\ last.body.action \in QueryActions
    /\ last.res.status = StatusOk
    /\ engine.order # << >>

\* C6: an analyze of well-formed files of which one does not parse returns its
\* result with one per-file result for each file: no entity and an issue for
\* a file that does not parse, the entities of its text for every other file,
\* and the graph and summary over all the files.
C6_FailedFileDoesNotAbort ==
    (/\ last.body.action = "analyze"
     /\ last.body.files.tag = "array"
     /\ \A i \in 1..Len(last.body.files.items) : last.body.files.items[i].tag = "file"
     /\ \E i \in 1..Len(last.body.files.items) :
          ~Parse(LastContent(last.body.files.items, last.body.files.items[i].path)).ok)
    =>
        /\ last.res.status = StatusOk
        /\ Len(last.res.results) = Len(last.body.files.items)
        /\ \A i \in 1..Len(last.body.files.items) :
             /\ last.res.results[i].filePath = last.body.files.items[i].path
             /\ Len(last.res.results[i].entities) =
                  Len(Parse(LastContent(last.body.files.items,
                                        last.body.files.items[i].path)).ents)
             /\ (Parse(LastContent(last.body.files.items,
                                   last.body.files.items[i].path)).ok
                   <=> last.res.results[i].issues = << >>)
        /\ Range(last.res.nodes) = PathsOf(last.body.files.items)
        /\ last.res.summary # << >>
        /\ last.res.summary[1].totalFiles = Cardinality(PathsOf(last.body.files.items))

\* An analyze of a file that does not parse and a file that does returned.
C6_Witness ==
    /\ AnalyzeReturned
    /\ \E i, j \in 1..Len(last.body.files.items) :
         /\ last.res.results[i].entities = << >>
         /\ last.res.results[i].issues # << >>
         /\ last.res.results[j].entities # << >>

\* The request searchEntities('', undefined).
SearchAll == MkBody("searchEntities", FilesUndefined, Undefined, "", Undefined, Undefined)

\* The handler's answer to body on the snapshot e.
Answer(e, body) ==
    Response(body, Run(e, NoLocals, Program(body), 1, body, TRUE, NoFault).loc)

\* C7 (as claimed): on the snapshot an analyze left, searchEntities with the
\* empty pattern and no kind returns as many entities as the per-file results
\* of that analyze hold together.
C7_SearchAllCountsEveryEntity ==
    AnalyzeReturned =>
        /\ Answer(engine, SearchAll).status = StatusOk
        /\ Len(Answer(engine, SearchAll).ret) =
             SumSeq([i \in 1..Len(last.res.results) |-> Len(last.res.results[i].entities)])

\* C8: an analyze that returns its result gives the response, and leaves the
\* snapshot, that the same request gives on the empty initial snapshot,
\* whatever snapshot it found.
C8_AnalyzeIndependentOfPrior ==
    AnalyzeReturned =>
        /\ last.res = Answer(EmptyEngine, last.body)
        /\ engine = Run(EmptyEngine, NoLocals, Program(last.body), 1, last.body, TRUE, NoFault).eng

\* An analyze returned over the snapshot an earlier analyze of the same files left.
C8_Witness ==
    /\ AnalyzeReturned
    /\ last.prior = "same"
    /\ Len(last.body.files.items) >= 1

\* C9 (as claimed): every answer is a result, a bad request or a server
\* error, and a request whose required argument is missing or malformed is
\* never answered with the server error.
C9_InvalidInputNeverInternalFailure ==
    Answered =>
        /\ last.res.status \in {StatusOk, StatusBadRequest, StatusServerError}
        /\ InvalidRequest(last.body) => last.res.status # StatusServerError

\* C10: getEntity with a non-empty name that no entity of the snapshot has is
\* answered with a result whose entity is null.
C10_GetEntityAbsentIsNull ==
    (/\ last.body.action = "getEntity"
     /\ last.body.kind = "object"
     /\ ~Falsy(last.body.functionName)
     /\ \A i \in 1..Len(AllEntities(engine)) :
          AllEntities(engine)[i].name # last.body.functionName)
    =>
        /\ last.res.status = StatusOk
        /\ last.res.error = ""
        /\ last.res.ret = << >>

\* getEntity of a name no entity has was answered on a snapshot with entities.
C10_Witness ==
    /\ last.body.action = "getEntity"
    /\ last.body.functionName = "zz"
    /\ last.res.status = StatusOk
    /\ AllEntities(engine) # << >>

\* ------------------------------------------------------- cycle detection alone

\* The files of the graphs findCircularDependencies is applied to.
GraphFiles == << "a.ts", "b.ts", "c.ts" >>

\* Every import there can be between the files, in the order the edges of a
\* graph are kept.
GraphImports ==
    [k \in 1..(Len(GraphFiles) * Len(GraphFiles)) |->
        [from |-> GraphFiles[((k - 1) \div Len(GraphFiles)) + 1],
         to |-> GraphFiles[((k - 1) % Len(GraphFiles)) + 1],
         type |-> "import"]]

\* The snapshot an analyze leaves whose files are held and whose imports are
\* picked (the texts are left out: content is "-"). A file that is imported and
\* not held is an external target.
GraphEngine(held, picked) ==
    [order |-> SelectSeq(GraphFiles, LAMBDA f : f \in held),
     content |-> [p \in Range(GraphFiles) |-> "-"],
     analyzed |-> held,
     built |-> TRUE,
     nodes |-> SelectSeq(GraphFiles, LAMBDA f : f \in held),
     edges |-> SelectSeq(GraphImports, LAMBDA d : d \in picked)]

\* The request findCircularDependencies.
CyclesQuery ==
    MkBody("findCircularDependencies", FilesUndefined, Undefined, Undefined, Undefined,
           Undefined)

\* Any dependency graph over the files: the files held, and imports from them.
InitCycles ==
    /\ \E held \in SUBSET Range(GraphFiles) :
       \E picked \in SUBSET {d \in Range(GraphImports) : d.from \in held} :
           engine = GraphEngine(held, picked)
    /\ h = [r \in Handlers |-> IdleHandler]
    /\ last = NoLast

\* A findCircularDependencies request is received and answered.
AnswerCycles ==
    /\ last = NoLast
    /\ \E out \in {Run(engine, NoLocals, Program(CyclesQuery), 1, CyclesQuery, TRUE, NoFault)} :
         last' = [NoLast EXCEPT !.body = CyclesQuery,
                                !.res = Response(CyclesQuery, out.loc),
                                !.log = out.loc.log]
    /\ UNCHANGED << engine, h >>

NextCycles == AnswerCycles

SpecCycles == InitCycles /\ [][NextCycles]_vars

\* The findCircularDependencies request has been answered with its result.
CyclesAnswered ==
    last.body.action = "findCircularDependencies" /\ last.res.status = StatusOk

\* There is an edge from x to y in the graph.
HasEdge(e, x, y) == \E i \in 1..Len(e.edges) : e.edges[i].from = x /\ e.edges[i].to = y

\* c is a closed path of edges between held files, no file twice.
IsCycle(e, c) ==
    /\ Len(c) >= 1
    /\ \A i \in 1..Len(c) : c[i] \in Range(e.nodes)
    /\ \A i, j \in 1..Len(c) : c[i] = c[j] => i = j
    /\ \A i \in 1..Len(c) : HasEdge(e, c[i], c[(i % Len(c)) + 1])

\* The cycles of the graph, one sequence for each (the rotation that starts
\* at its first file in node order).
Cycles(e) ==
    {c \in UNION {[1..n -> Range(e.nodes)] : n \in 1..Len(e.nodes)} :
        /\ IsCycle(e, c)
        /\ \A i \in 1..Len(c) : IndexOf(e.nodes, c[1]) <= IndexOf(e.nodes, c[i])}

\* C11 (as claimed): findCircularDependencies returns every cycle of the graph
\* exactly once up to rotation, and nothing but cycles of the graph.
C11_EveryCycleOnce ==
    CyclesAnswered =>
        /\ \A c \in Cycles(engine) :
             Cardinality({i \in 1..Len(last.res.ret) : IsRotation(last.res.ret[i], c)}) = 1
        /\ \A i \in 1..Len(last.res.ret) :
             \E c \in Cycles(engine) : IsRotation(last.res.ret[i], c)

\* The imports between held files, as pairs.
InternalImports(e) ==
    {<< e.edges[i].from, e.edges[i].to >> :
        i \in {j \in 1..Len(e.edges) : e.edges[j].to \in Range(e.nodes)}}

C13_EngineErrorSurfaces ==
    [][\A r \in Handlers :
         (h[r].pc = "json" /\ h'[r].pc # "json") =>
            /\ h'[r].pc = "idle"
            /\ last'.res.status \in {StatusOk, StatusBadRequest, StatusServerError}
            /\ last'.thrown # "" =>
                 /\ last'.res.status = StatusServerError
                 /\ last'.res.error =
                      (IF last'.thrown = "Error" THEN EngineErrorMessage ELSE "Unknown error")
                 /\ last'.res.results = << >>
                 /\ last'.res.summary = << >>
                 /\ last'.res.ret = << >>]_vars

\* The analyzer raised an Error in a call of a request, after other calls.
C13_Witness ==
    /\ last.thrown = "Error"
    /\ Len(last.log) >= 2
    /\ last.res.status = StatusServerError

\* C14 (as claimed): in every state every held file is analyzed and the graph
\* is the one built from the files held.
C14_SnapshotAlwaysComplete ==
    /\ engine.analyzed = Range(engine.order)
    /\ engine.nodes = engine.order
    /\ engine.edges = BuildDependencyGraph(engine).edges

\* C15: the response of an analyze that returned its result has one per-file
\* result for each element of the files array, in the array's order, each with
\* the path of its element.
C15_OneResultPerElement ==
    AnalyzeReturned =>
        /\ Len(last.res.results) = Len(last.body.files.items)
        /\ \A i \in 1..Len(last.body.files.items) :
             last.res.results[i].filePath = last.body.files.items[i].path

\* An analyze of a files array that names one path twice returned its result.
C15_Witness ==
    /\ AnalyzeReturned
    /\ Len(last.body.files.items) = 2
    /\ last.body.files.items[1].path = last.body.files.items[2].path
    /\ Len(last.res.results) = 2

\* C16: while no analyze request was handled since an analyze returned its
\* result, findCircularDependencies is answered with the cycles, and getSummary
\* with the summary, of that analyze's response.
C16_QueriesRepeatAnalyzeReport ==
    (last.reported # << >> /\ last.res.status = StatusOk) =>
        /\ last.body.action = "findCircularDependencies"
             => last.res.ret = last.reported[1].cycles
        /\ last.body.action = "getSummary"
             => last.res.ret = last.reported[1].summary

\* The cycles were asked for after an analyze that reported a cycle and after
\* other queries.
C16_Witness ==
    /\ last.body.action = "findCircularDependencies"
    /\ last.res.status = StatusOk
    /\ last.reported # << >>
    /\ last.between
    /\ last.res.ret # << >>

====
